---- MODULE Spec2Model ----
(***************************************************************************)
(* The vector index of FinanceY (src/backend/rag/retriever.py): one        *)
(* RAGRetriever object, the two companion files it persists to, and the    *)
(* operations build_index, add_documents, retrieve, save and load.         *)
(*                                                                         *)
(* Vectors are sequences of integers; every value used is exactly          *)
(* representable as a float32, so astype('float32') changes none of them   *)
(* and squared distances are exact.  A metadata mapping is the set of its  *)
(* <<key, value>> pairs.  Positions reported by the index (labels) are     *)
(* 0-based as in FAISS and Python; TLA+ sequences are 1-based.             *)
(***************************************************************************)
EXTENDS Integers, Sequences, FiniteSets, TLC

\* ------------------------------------------------------------------ bounds
\* Longest embeddings / documents / metadata list passed to one call.
MaxArg == 2
\* Calls that would store more vectors or documents than this are not made.
MaxStore == 3
\* Largest explicit k passed to retrieve.
MaxK == 3
\* Vectors, documents and metadata entries stored at most where the files are
\* modelled too.
MaxDiskStore == 2

\* ------------------------------------------------------ program constants
\* settings.embedding_dimension
EmbeddingDimension == 1536
\* settings.top_k_retrieval
TopKRetrieval == 5
\* The distance FAISS reports for a result slot it could not fill (FLT_MAX).
FltMax == 2147483647

\* ------------------------------------------------------------ input values
\* Two vectors of dimension 1 and one of dimension 2.
Vecs == {<<0>>, <<1>>, <<0, 0>>}
\* The rows of one call's embeddings, in order.
VecList == <<<<0>>, <<1>>, <<0>>, <<1>>>>
\* The texts of one call's documents list, in order.
TextList == <<"A", "B", "C", "D">>
EmptyMeta == {}
FileMeta == {<<"filename", "a.txt">>}

SeqsUpTo(S, n) == UNION {[1..m -> S] : m \in 0..n}

\* An optional argument: Python's None, or a value.
None == [some |-> FALSE, val |-> <<>>]
Some(v) == [some |-> TRUE, val |-> v]

\* The embeddings of one call: the first rows of VecList (none included), one
\* row of dimension 2, or two rows of different lengths.
EmbArgs == {SubSeq(VecList, 1, n) : n \in 0..MaxArg}
               \cup {<<<<0, 0>>>>, <<<<0>>, <<0, 0>>>>}
DocArgs == {SubSeq(TextList, 1, n) : n \in 0..MaxArg}
MetaArgs == {None} \cup {Some(m) : m \in SeqsUpTo({FileMeta}, MaxArg)}
KArgs == {None} \cup {Some(k) : k \in 1..MaxK}

\* ------------------------------------------------------------------- state
VARIABLES
    index,      \* self.index: no index, or an IndexFlatL2 with its d and rows
    documents,  \* self.documents
    metadata,   \* self.metadata
    dimension,  \* self.dimension
    faissFile,  \* <path>.faiss
    pklFile,    \* <path>.pkl
    call,       \* the last call made: its name, its outcome, its arguments
    rt,         \* the in-memory state at a build, followed through save and load
    chunking,   \* a chunk_text call: its arguments, its locals, its result
    cleaning,   \* a clean_text call: its argument and its result
    embedding,  \* a get_embeddings call: its arguments, its locals, its result
    requests,   \* the /upload and /query requests being served, by request
    filing      \* a call into the per-filing search of rag_chain

vars == <<index, documents, metadata, dimension, faissFile, pklFile, call, rt,
          chunking, cleaning, embedding, requests, filing>>

NoIndex == [built |-> FALSE, d |-> 0, xb |-> <<>>]
FlatL2(d, rows) == [built |-> TRUE, d |-> d, xb |-> rows]

\* The retriever object as one value.
Self == [index |-> index, documents |-> documents,
         metadata |-> metadata, dimension |-> dimension]

\* RAGRetriever.__init__
NewSelf == [index |-> NoIndex, documents |-> <<>>,
            metadata |-> <<>>, dimension |-> EmbeddingDimension]

\* A call's outcome: it returned (the object as it left it), or it raised
\* (the object as it was when the exception left the method).
Return(s) == [ok |-> TRUE, self |-> s]
Raise(s) == [ok |-> FALSE, self |-> s]

\* ------------------------------------------------------------ Python, numpy
\* [x] * n
Repeat(x, n) == [i \in 1..n |-> x]

\* bool(metadata) for an optional list: None and [] are falsy.
Truthy(M) == M.some /\ Len(M.val) > 0

\* list[idx] with Python's negative indices.
PyIndex(list, idx) == IF idx >= 0 THEN list[idx + 1] ELSE list[Len(list) + idx + 1]

\* np.array(rows) is two-dimensional only when the rows have one length.
Rectangular(E) == \A i \in 1..Len(E) : Len(E[i]) = Len(E[1])

Min(a, b) == IF a <= b THEN a ELSE b

RECURSIVE SumSq(_, _, _)
SumSq(x, y, i) == IF i = 0 THEN 0
                  ELSE (x[i] - y[i]) * (x[i] - y[i]) + SumSq(x, y, i - 1)

\* Squared Euclidean distance of two vectors of one dimension.
L2Sqr(x, y) == SumSq(x, y, Len(x))

NumVectors(ix) == IF ix.built THEN Len(ix.xb) ELSE 0

\* ------------------------------------------------------------- build_index
\* build_index without its first check: an empty collection builds an empty
\* index of the current dimension.
build_index_unchecked(s, E, D, M) ==
    IF ~Rectangular(E) THEN Raise(s)
    ELSE LET dim == IF Len(E) = 0 THEN s.dimension ELSE Len(E[1])
         IN Return([index |-> FlatL2(dim, E), documents |-> D,
                    metadata |-> IF Truthy(M) /\ Len(M.val) = Len(D) THEN M.val
                                 ELSE Repeat(EmptyMeta, Len(D)),
                    dimension |-> dim])

\* build_index that adds to an index of the same dimension instead of
\* creating a new one.
build_index_reusing(s, E, D, M) ==
    IF Len(E) = 0 \/ ~Rectangular(E) THEN Raise(s)
    ELSE LET dim == Len(E[1])
             old == IF s.index.built /\ s.index.d = dim THEN s.index.xb ELSE <<>>
         IN Return([index |-> FlatL2(dim, old \o E), documents |-> D,
                    metadata |-> IF Truthy(M) /\ Len(M.val) = Len(D) THEN M.val
                                 ELSE Repeat(EmptyMeta, Len(D)),
                    dimension |-> dim])

build_index(s, E, D, M) ==
    IF Len(E) = 0 THEN Raise(s)
    ELSE IF ~Rectangular(E) THEN Raise(s)
    ELSE LET dim == Len(E[1])
             md == IF Truthy(M) THEN M.val ELSE Repeat(EmptyMeta, Len(D))
         IN Return([index |-> FlatL2(dim, E),
                    documents |-> D,
                    metadata |-> IF Len(md) # Len(D)
                                 THEN Repeat(EmptyMeta, Len(D)) ELSE md,
                    dimension |-> dim])

\* ----------------------------------------------------------- add_documents
\* The embeddings are a list of rows, as upload_file passes them: an empty
\* list becomes a one-dimensional array, which index.add rejects, as it
\* rejects rows of another length than the index's d.
add_documents(s, E, D, M) ==
    IF ~s.index.built THEN build_index(s, E, D, M)
    ELSE IF Len(E) = 0 \/ ~Rectangular(E) \/ Len(E[1]) # s.index.d THEN Raise(s)
    ELSE Return([s EXCEPT
            !.index = FlatL2(s.index.d, s.index.xb \o E),
            !.documents = s.documents \o D,
            !.metadata = s.metadata \o
                (IF Truthy(M) THEN M.val ELSE Repeat(EmptyMeta, Len(D)))])

\* ---------------------------------------------------------------- retrieve
\* IndexFlatL2.search for one query: k slots of (distance, label), the stored
\* vectors nearest first (equal distances by position), the slots beyond the
\* stored count filled with label -1 and distance FLT_MAX.
Search(ix, q, k) ==
    LET n == Len(ix.xb)
        dist(i) == L2Sqr(ix.xb[i], q)
        before(j, i) == dist(j) < dist(i) \/ (dist(j) = dist(i) /\ j < i)
        rank(i) == Cardinality({j \in 1..n : before(j, i)}) + 1
        at(r) == CHOOSE i \in 1..n : rank(i) = r
    IN [r \in 1..k |-> IF r <= n THEN [distance |-> dist(at(r)), label |-> at(r) - 1]
                       ELSE [distance |-> FltMax, label |-> -1]]

\* The result list built from the slots: a slot whose label is not below
\* len(documents) is skipped.
Hits(s, slots) ==
    LET keep(r) == slots[r].label < Len(s.documents)
        kept == {r \in 1..Len(slots) : keep(r)}
        nth(m) == CHOOSE r \in kept : Cardinality({u \in kept : u < r}) = m - 1
    IN [m \in 1..Cardinality(kept) |->
            LET idx == slots[nth(m)].label
            IN [text |-> PyIndex(s.documents, idx),
                metadata |-> IF idx < Len(s.metadata)
                             THEN PyIndex(s.metadata, idx) ELSE EmptyMeta,
                distance |-> slots[nth(m)].distance]]

\* metadata[-1] on an empty list raises IndexError.
BadIndex(s, slots) ==
    \E r \in 1..Len(slots) : slots[r].label < 0 /\ Len(s.metadata) = 0

\* retrieve that tests only for a missing index before it searches.
retrieve_unguarded(s, q, K) ==
    IF ~s.index.built THEN [ok |-> TRUE, hits |-> <<>>]
    ELSE LET k == Min(IF K.some THEN K.val ELSE TopKRetrieval, Len(s.documents))
         IN IF k < 1 \/ Len(q) # s.index.d THEN [ok |-> FALSE, hits |-> <<>>]
            ELSE LET slots == Search(s.index, q, k)
                 IN IF BadIndex(s, slots) THEN [ok |-> FALSE, hits |-> <<>>]
                    ELSE [ok |-> TRUE, hits |-> Hits(s, slots)]

\* retrieve(q, k): [ok, hits]; ok is FALSE when the call raises (FAISS rejects
\* a query of another dimension and k < 1).
retrieve(s, q, K) ==
    IF ~s.index.built \/ Len(s.documents) = 0 THEN [ok |-> TRUE, hits |-> <<>>]
    ELSE LET k == Min(IF K.some THEN K.val ELSE TopKRetrieval, Len(s.documents))
         IN IF k < 1 \/ Len(q) # s.index.d THEN [ok |-> FALSE, hits |-> <<>>]
            ELSE LET slots == Search(s.index, q, k)
                 IN IF BadIndex(s, slots) THEN [ok |-> FALSE, hits |-> <<>>]
                    ELSE [ok |-> TRUE, hits |-> Hits(s, slots)]

\* ------------------------------------------------------------- save, load
Absent == [state |-> "absent", data |-> <<>>]
Written(x) == [state |-> "ok", data |-> x]
Torn == [state |-> "torn", data |-> <<>>]

Disk(f, p) == [faiss |-> f, pkl |-> p]

\* What faiss.write_index and pickle.dump put on disk for the object s.
FaissImage(s) == Written(s.index)
PklImage(s) == Written([documents |-> s.documents, metadata |-> s.metadata,
                        dimension |-> s.dimension])

\* Where a save call can stop: it completes, it stops after the index file is
\* written and before the side-table is opened, or it stops while pickling,
\* after open(..., "wb") has truncated the side-table.
SaveFaults == {"none", "before_pkl", "in_dump"}

save(s, disk, fault) ==
    LET f == IF s.index.built THEN FaissImage(s) ELSE disk.faiss
    IN CASE fault = "none" -> [ok |-> TRUE, disk |-> Disk(f, PklImage(s))]
         [] fault = "before_pkl" -> [ok |-> FALSE, disk |-> Disk(f, disk.pkl)]
         [] fault = "in_dump" -> [ok |-> FALSE, disk |-> Disk(f, Torn)]

\* A call that raised the named exception, leaving the object as s.
RaiseError(s, e) == [ok |-> FALSE, self |-> s, err |-> e]

\* load that restores the documents and the dimension and keeps the metadata
\* list it had.
load_keeping_metadata(s, disk) ==
    IF disk.faiss.state # "ok" \/ disk.pkl.state = "absent"
    THEN RaiseError(s, "FileNotFoundError")
    ELSE LET s1 == [s EXCEPT !.index = disk.faiss.data]
         IN IF disk.pkl.state = "torn" THEN RaiseError(s1, "UnpicklingError")
            ELSE Return([s1 EXCEPT !.documents = disk.pkl.data.documents,
                                   !.dimension = disk.pkl.data.dimension])

\* load that looks for the index file alone before it starts reading.
load_index_first(s, disk) ==
    IF disk.faiss.state = "absent" THEN RaiseError(s, "FileNotFoundError")
    ELSE LET s1 == [s EXCEPT !.index = disk.faiss.data]
         IN IF disk.pkl.state = "absent" THEN RaiseError(s1, "FileNotFoundError")
            ELSE IF disk.pkl.state = "torn" THEN RaiseError(s1, "UnpicklingError")
            ELSE Return([s1 EXCEPT !.documents = disk.pkl.data.documents,
                                   !.metadata = disk.pkl.data.metadata,
                                   !.dimension = disk.pkl.data.dimension])

load(s, disk) ==
    IF disk.faiss.state = "absent" \/ disk.pkl.state = "absent"
    THEN RaiseError(s, "FileNotFoundError")
    ELSE IF disk.faiss.state = "torn" THEN RaiseError(s, "RuntimeError")
    ELSE LET s1 == [s EXCEPT !.index = disk.faiss.data]
         IN IF disk.pkl.state = "torn" THEN RaiseError(s1, "UnpicklingError")
            ELSE Return([s1 EXCEPT !.documents = disk.pkl.data.documents,
                                   !.metadata = disk.pkl.data.metadata,
                                   !.dimension = disk.pkl.data.dimension])

\* get_stats
get_stats(s) == [num_documents |-> Len(s.documents), dimension |-> s.dimension,
                 index_exists |-> s.index.built]

\* ---------------------------------------------------------------- actions
NoCall == [op |-> "init", ok |-> TRUE]
NoTrack == [stage |-> "none"]
NoChunking == [pc |-> "none"]
NoCleaning == [pc |-> "none"]
NoEmbedding == [pc |-> "none"]
NoRequests == <<>>
NoFiling == [pc |-> "none"]
Text == <<chunking, cleaning>>
Calls == <<embedding, requests, filing>>
Retriever == <<index, documents, metadata, dimension, faissFile, pklFile, call, rt>>

\* A new retriever over an empty directory.
Fresh ==
    /\ index = NewSelf.index
    /\ documents = NewSelf.documents
    /\ metadata = NewSelf.metadata
    /\ dimension = NewSelf.dimension
    /\ faissFile = Absent
    /\ pklFile = Absent
    /\ call = NoCall
    /\ rt = NoTrack

\* No call into the embedding gateway, the HTTP handlers or rag_chain.
Idle ==
    /\ embedding = NoEmbedding
    /\ requests = NoRequests
    /\ filing = NoFiling

Init ==
    /\ Fresh
    /\ chunking = NoChunking
    /\ cleaning = NoCleaning
    /\ Idle

Becomes(s) ==
    /\ index' = s.index
    /\ documents' = s.documents
    /\ metadata' = s.metadata
    /\ dimension' = s.dimension

Fits(s) ==
    /\ NumVectors(s.index) <= MaxStore
    /\ Len(s.documents) <= MaxStore
    /\ Len(s.metadata) <= MaxStore

\* The record of a build_index or add_documents call; a call that raised
\* keeps the embeddings argument alone (the only one it read).
Mutation(op, r, E, D, M) ==
    IF r.ok THEN [op |-> op, ok |-> TRUE, E |-> E, D |-> D, M |-> M,
                  had |-> index.built]
    ELSE [op |-> op, ok |-> FALSE, E |-> E]

BuildIndex(E, D, M) ==
    LET r == build_index(Self, E, D, M)
    IN /\ Fits(r.self)
       /\ Becomes(r.self)
       /\ call' = Mutation("build_index", r, E, D, M)
       /\ rt' = IF r.ok THEN [stage |-> "built", self |-> r.self] ELSE NoTrack
       /\ UNCHANGED <<faissFile, pklFile>>

AddDocuments(E, D, M) ==
    LET r == add_documents(Self, E, D, M)
    IN /\ Fits(r.self)
       /\ Becomes(r.self)
       /\ call' = Mutation("add_documents", r, E, D, M)
       /\ rt' = NoTrack
       /\ UNCHANGED <<faissFile, pklFile>>

\* A retrieve call; the record keeps what it returned.
Retrieve(q, K) ==
    /\ call' = [op |-> "retrieve", out |-> retrieve(Self, q, K)]
    /\ rt' = NoTrack
    /\ UNCHANGED <<index, documents, metadata, dimension, faissFile, pklFile>>

\* A new RAGRetriever object in a restarted process; the files stay.
NewRetriever ==
    /\ Becomes(NewSelf)
    /\ call' = [op |-> "new", ok |-> TRUE]
    /\ rt' = IF rt.stage = "saved" THEN rt ELSE NoTrack
    /\ UNCHANGED <<faissFile, pklFile>>

Save(fault) ==
    LET r == save(Self, Disk(faissFile, pklFile), fault)
    IN /\ faissFile' = r.disk.faiss
       /\ pklFile' = r.disk.pkl
       /\ call' = [op |-> "save", ok |-> r.ok]
       /\ rt' = IF r.ok /\ rt.stage = "built" THEN [rt EXCEPT !.stage = "saved"]
                ELSE NoTrack
       /\ UNCHANGED <<index, documents, metadata, dimension>>

Load ==
    LET r == load(Self, Disk(faissFile, pklFile))
    IN /\ Becomes(r.self)
       /\ call' = [op |-> "load", ok |-> r.ok,
                   err |-> IF r.ok THEN "none" ELSE r.err]
       /\ rt' = IF r.ok /\ rt.stage = "saved" THEN [rt EXCEPT !.stage = "loaded"]
                ELSE NoTrack
       /\ UNCHANGED <<faissFile, pklFile>>

\* The index in memory: build_index, add_documents and retrieve.
Next ==
    /\ \/ \E E \in EmbArgs, D \in DocArgs, M \in MetaArgs : BuildIndex(E, D, M)
       \/ \E E \in EmbArgs, D \in DocArgs, M \in MetaArgs : AddDocuments(E, D, M)
       \/ \E q \in Vecs, K \in KArgs : Retrieve(q, K)
    /\ UNCHANGED <<Text, Calls>>

Spec == Init /\ [][Next]_vars

\* The index and its files: builds and adds of vectors of one dimension, save
\* (complete or interrupted), load and process restarts.
DiskEmbArgs == {SubSeq(VecList, 1, n) : n \in 0..MaxArg}
DiskMetaArgs == {None} \cup {Some(Repeat(FileMeta, n)) : n \in 1..MaxArg}

FitsDisk ==
    /\ NumVectors(index') <= MaxDiskStore
    /\ Len(documents') <= MaxDiskStore
    /\ Len(metadata') <= MaxDiskStore

NextDisk ==
    /\ \/ \E E \in DiskEmbArgs, D \in DocArgs, M \in DiskMetaArgs :
               BuildIndex(E, D, M) /\ FitsDisk
       \/ \E E \in DiskEmbArgs, D \in DocArgs, M \in DiskMetaArgs :
               AddDocuments(E, D, M) /\ FitsDisk
       \/ \E fault \in SaveFaults : Save(fault)
       \/ Load
       \/ NewRetriever
    /\ UNCHANGED <<Text, Calls>>

SpecDisk == Init /\ [][NextDisk]_vars

\* Snapshots of built indexes: build_index, save (complete or interrupted),
\* load and process restarts.
NextSnap ==
    /\ \/ \E E \in EmbArgs, D \in DocArgs, M \in MetaArgs :
               BuildIndex(E, D, M) /\ FitsDisk
       \/ \E fault \in SaveFaults : Save(fault)
       \/ Load
       \/ NewRetriever
    /\ UNCHANGED <<Text, Calls>>

SpecSnap == Init /\ [][NextSnap]_vars

\* ------------------------------------------------------------------ text
\* A text is a sequence of characters. Python slicing, strip and rfind are
\* computed as Python computes them.
Whitespace == {" ", "\n", "\t"}
Nul == "\\x00"

Max(a, b) == IF a > b THEN a ELSE b

\* seq[a:b] with 0-based bounds; a negative bound counts from the end.
PySlice(seq, a, b) ==
    LET n == Len(seq)
        lo == IF a < 0 THEN Max(a + n, 0) ELSE Min(a, n)
        hi == IF b < 0 THEN Max(b + n, 0) ELSE Min(b, n)
    IN SubSeq(seq, lo + 1, hi)

\* text.strip()
Strip(t) ==
    LET keep == {i \in 1..Len(t) : t[i] \notin Whitespace}
    IN IF keep = {} THEN <<>>
       ELSE SubSeq(t, CHOOSE i \in keep : \A j \in keep : i <= j,
                      CHOOSE i \in keep : \A j \in keep : i >= j)

\* chunk.rfind(punct) for a two-character punct: the last 0-based position
\* where it starts, -1 when it does not occur.
RFind(chunk, punct) ==
    LET at == {i \in 0..(Len(chunk) - 2) :
                  chunk[i + 1] = punct[1] /\ chunk[i + 2] = punct[2]}
    IN IF at = {} THEN -1 ELSE CHOOSE i \in at : \A j \in at : i >= j

\* re.sub(r'\s+', ' ', text)
RECURSIVE CollapseWhitespace(_)
CollapseWhitespace(t) ==
    IF t = <<>> THEN <<>>
    ELSE IF t[1] \in Whitespace
         THEN IF Len(t) > 1 /\ t[2] \in Whitespace
              THEN CollapseWhitespace(Tail(t))
              ELSE <<" ">> \o CollapseWhitespace(Tail(t))
         ELSE <<t[1]>> \o CollapseWhitespace(Tail(t))

\* re.sub(r'\x00', '', text)
RemoveNul(t) == SelectSeq(t, LAMBDA c : c # Nul)

clean_text(text) == Strip(RemoveNul(CollapseWhitespace(text)))

\* The tokenizer: every character is a token and the pairs in Merges are one
\* token each; encode takes the longest token at each position, decode joins
\* the characters of the tokens.
Merges == {<<"a", "b">>, <<" ", "a">>}

RECURSIVE Encode(_)
Encode(t) ==
    IF t = <<>> THEN <<>>
    ELSE IF Len(t) > 1 /\ SubSeq(t, 1, 2) \in Merges
         THEN <<SubSeq(t, 1, 2)>> \o Encode(SubSeq(t, 3, Len(t)))
         ELSE <<SubSeq(t, 1, 1)>> \o Encode(Tail(t))

RECURSIVE Decode(_)
Decode(tokens) ==
    IF tokens = <<>> THEN <<>> ELSE tokens[1] \o Decode(Tail(tokens))

\* Bounds of the text inputs.
MaxText == 7
MaxChunkSize == 5
MaxRaw == 5

\* The texts given to chunk_text are the pieces of one sample, the empty text
\* among them.
SampleText == <<"a", "a", "b", ".", " ", "a", "b", " ", "a", ".">>
Texts == {SubSeq(SampleText, i, j) :
              i \in 1..Len(SampleText), j \in 0..Len(SampleText)}
ChunkTexts == {t \in Texts : Len(t) <= MaxText}
ChunkSizes == 1..MaxChunkSize
Overlaps == 0..(MaxChunkSize + 1)
MaxChunks == MaxText + 1

\* The texts given to clean_text.
RawChars == {"a", " ", "\n", Nul}
RawTexts == SeqsUpTo(RawChars, MaxRaw)

\* One pass of the while loop of chunk_text_by_tokens, from the test of the
\* loop condition to the break; c holds the arguments and the locals.
chunk_text_by_tokens_full_stride(c) ==
    IF c.start_idx < Len(c.tokens)
    THEN LET end_idx == Min(c.start_idx + c.chunk_size, Len(c.tokens))
             chunk_tokens == PySlice(c.tokens, c.start_idx, end_idx)
             start_idx == c.start_idx + c.chunk_size
         IN [c EXCEPT !.chunks = Append(@, Decode(chunk_tokens)),
                      !.windows = Append(@, chunk_tokens),
                      !.start_idx = start_idx,
                      !.pc = IF start_idx >= Len(c.tokens) THEN "done" ELSE "tokens"]
    ELSE [c EXCEPT !.pc = "done"]

chunk_text_by_tokens_wide_stride(c) ==
    IF c.start_idx < Len(c.tokens)
    THEN LET end_idx == Min(c.start_idx + c.chunk_size, Len(c.tokens))
             chunk_tokens == PySlice(c.tokens, c.start_idx, end_idx)
             start_idx == c.start_idx + (c.chunk_size - c.overlap) + 1
         IN [c EXCEPT !.chunks = Append(@, Decode(chunk_tokens)),
                      !.windows = Append(@, chunk_tokens),
                      !.start_idx = start_idx,
                      !.pc = IF start_idx >= Len(c.tokens) THEN "done" ELSE "tokens"]
    ELSE [c EXCEPT !.pc = "done"]

chunk_text_by_tokens(c) ==
    IF c.start_idx < Len(c.tokens)
    THEN LET end_idx == Min(c.start_idx + c.chunk_size, Len(c.tokens))
             chunk_tokens == PySlice(c.tokens, c.start_idx, end_idx)
             start_idx == c.start_idx + (c.chunk_size - c.overlap)
         IN [c EXCEPT !.chunks = Append(@, Decode(chunk_tokens)),
                      !.windows = Append(@, chunk_tokens),
                      !.start_idx = start_idx,
                      !.pc = IF start_idx >= Len(c.tokens) THEN "done" ELSE "tokens"]
    ELSE [c EXCEPT !.pc = "done"]

\* The sentence endings _chunk_text_characters looks for, in its order.
Puncts == << <<".", " ">>, <<".", "\n">>, <<"!", " ">>, <<"!", "\n">>,
             <<"?", " ">>, <<"?", "\n">> >>

\* The position the for loop over the sentence endings breaks at: the rfind
\* of the first ending found past the middle of the chunk, -1 when none is.
SentenceCut(chunk, chunk_size) ==
    LET found == {p \in 1..Len(Puncts) : 2 * RFind(chunk, Puncts[p]) > chunk_size}
    IN IF found = {} THEN -1
       ELSE RFind(chunk, Puncts[CHOOSE p \in found : \A q \in found : p <= q])

\* One pass of the while loop of _chunk_text_characters.
chunk_text_characters(c) ==
    IF c.start_idx < Len(c.text)
    THEN LET end == c.start_idx + c.chunk_size
             whole == PySlice(c.text, c.start_idx, end)
             last_punct == IF end < Len(c.text)
                           THEN SentenceCut(whole, c.chunk_size) ELSE -1
             chunk == IF last_punct >= 0 THEN PySlice(whole, 0, last_punct + 1)
                      ELSE whole
             end1 == IF last_punct >= 0 THEN c.start_idx + Len(chunk) ELSE end
         IN [c EXCEPT !.chunks = Append(@, Strip(chunk)),
                      !.start_idx = end1 - c.overlap]
    ELSE [c EXCEPT !.pc = "done"]

\* chunk_text up to the first loop: the call of chunk_text_by_tokens, which
\* encodes the text, or, when the tokenizer raised, the call of
\* _chunk_text_characters, which returns a text of at most chunk_size whole.
chunk_text(c) ==
    IF c.tiktoken
    THEN [c EXCEPT !.pc = "tokens", !.path = "tokens", !.tokens = Encode(c.text)]
    ELSE IF Len(c.text) <= c.chunk_size
         THEN [c EXCEPT !.pc = "done", !.path = "characters", !.chunks = <<c.text>>]
         ELSE [c EXCEPT !.pc = "characters", !.path = "characters"]

ChunkingCalls ==
    {[pc |-> "call", text |-> t, chunk_size |-> cs, overlap |-> ov,
      tiktoken |-> b, path |-> "none", tokens |-> <<>>, start_idx |-> 0,
      chunks |-> <<>>, windows |-> <<>>] :
        t \in ChunkTexts, cs \in ChunkSizes, ov \in Overlaps, b \in BOOLEAN}

CleaningCalls == {[pc |-> "call", text |-> t, out |-> <<>>] : t \in RawTexts}

InitChunk ==
    /\ Fresh
    /\ chunking \in ChunkingCalls
    /\ cleaning = NoCleaning
    /\ Idle

ChunkText ==
    /\ chunking.pc = "call"
    /\ chunking' = chunk_text(chunking)
    /\ UNCHANGED <<Retriever, cleaning, Calls>>

ChunkTextByTokens ==
    /\ chunking.pc = "tokens"
    /\ Len(chunking.chunks) < MaxChunks
    /\ chunking' = chunk_text_by_tokens(chunking)
    /\ UNCHANGED <<Retriever, cleaning, Calls>>

ChunkTextCharacters ==
    /\ chunking.pc = "characters"
    /\ Len(chunking.chunks) < MaxChunks
    /\ chunking' = chunk_text_characters(chunking)
    /\ UNCHANGED <<Retriever, cleaning, Calls>>

\* One chunk_text call on a text, from its entry to its return.
NextChunk == ChunkText \/ ChunkTextByTokens \/ ChunkTextCharacters

SpecChunk == InitChunk /\ [][NextChunk]_vars

InitClean ==
    /\ Fresh
    /\ chunking = NoChunking
    /\ cleaning \in CleaningCalls
    /\ Idle

CleanText ==
    /\ cleaning.pc = "call"
    /\ cleaning' = [cleaning EXCEPT !.pc = "done", !.out = clean_text(cleaning.text)]
    /\ UNCHANGED <<Retriever, chunking, Calls>>

\* One clean_text call on a text.
NextClean == CleanText

SpecClean == InitClean /\ [][NextClean]_vars

\* ------------------------------------------------------------- embeddings
\* get_embeddings. The provider answers a request with one vector per text of
\* the batch, in the batch's order, or raises: a quota/billing error, whose
\* message names the quota, or a connection error, whose message does not.
BatchSize == 100
MaxTexts == 201

ProviderOutcomes == {"ok", "insufficient_quota", "connection"}

\* settings.openai_api_key: empty, blank, or a key (with or without blanks
\* around it).
ApiKeys == {<<>>, <<" ">>, <<" ", "\t">>, <<"s", "k">>, <<" ", "s", "k">>}

\* The vector the provider gives for a text.
Embed(t) == <<(CHOOSE i \in 1..Len(TextList) : TextList[i] = t) - 1>>

\* A list of n texts, with repeats.
TextsOf(n) == [k \in 1..n |-> TextList[(k % 3) + 1]]

ApiKeyMissing(api_key) == Len(api_key) = 0 \/ Strip(api_key) = <<>>

NoError == [kind |-> "none", cause |-> "none"]
Error(kind, cause) == [kind |-> kind, cause |-> cause]

\* get_embeddings up to the loop over the batches; e holds the arguments,
\* the locals and the outcome.
get_embeddings_unstripped(e) ==
    IF Len(e.api_key) = 0
    THEN [e EXCEPT !.pc = "raised", !.err = Error("ValueError", "api_key")]
    ELSE [e EXCEPT !.pc = "batches"]

get_embeddings(e) ==
    IF ApiKeyMissing(e.api_key)
    THEN [e EXCEPT !.pc = "raised", !.err = Error("ValueError", "api_key")]
    ELSE [e EXCEPT !.pc = "batches"]

\* One pass of the loop over the batches, with the provider's answer to the
\* request, or the return after the last batch.
get_embeddings_batch_overlapping(e, outcome) ==
    IF e.i < Len(e.texts)
    THEN LET batch == PySlice(e.texts, e.i, e.i + BatchSize + 1)
         IN CASE outcome = "ok" ->
                    [e EXCEPT !.sent = Append(@, batch),
                              !.embeddings = @ \o [k \in 1..Len(batch) |-> Embed(batch[k])],
                              !.i = @ + BatchSize]
              [] outcome = "insufficient_quota" ->
                    [e EXCEPT !.sent = Append(@, batch), !.pc = "raised",
                              !.err = Error("ValueError", "quota")]
              [] outcome = "connection" ->
                    [e EXCEPT !.sent = Append(@, batch), !.pc = "raised",
                              !.err = Error("APIConnectionError", "connection")]
    ELSE [e EXCEPT !.pc = "returned", !.out = Some(e.embeddings)]

get_embeddings_batch(e, outcome) ==
    IF e.i < Len(e.texts)
    THEN LET batch == PySlice(e.texts, e.i, e.i + BatchSize)
         IN CASE outcome = "ok" ->
                    [e EXCEPT !.sent = Append(@, batch),
                              !.embeddings = @ \o [k \in 1..Len(batch) |-> Embed(batch[k])],
                              !.i = @ + BatchSize]
              [] outcome = "insufficient_quota" ->
                    [e EXCEPT !.sent = Append(@, batch), !.pc = "raised",
                              !.err = Error("ValueError", "quota")]
              [] outcome = "connection" ->
                    [e EXCEPT !.sent = Append(@, batch), !.pc = "raised",
                              !.err = Error("APIConnectionError", "connection")]
    ELSE [e EXCEPT !.pc = "returned", !.out = Some(e.embeddings)]

EmbeddingCall(api_key, texts) ==
    [pc |-> "call", api_key |-> api_key, texts |-> texts, i |-> 0,
     embeddings |-> <<>>, sent |-> <<>>, out |-> None, err |-> NoError]

EmbeddingCalls == {EmbeddingCall(k, TextsOf(n)) : k \in ApiKeys, n \in 0..MaxTexts}

InitEmbed ==
    /\ Fresh
    /\ chunking = NoChunking
    /\ cleaning = NoCleaning
    /\ embedding \in EmbeddingCalls
    /\ requests = NoRequests
    /\ filing = NoFiling

GetEmbeddings ==
    /\ embedding.pc = "call"
    /\ embedding' = get_embeddings(embedding)
    /\ UNCHANGED <<Retriever, Text, requests, filing>>

GetEmbeddingsBatch(outcome) ==
    /\ embedding.pc = "batches"
    /\ embedding' = get_embeddings_batch(embedding, outcome)
    /\ UNCHANGED <<Retriever, Text, requests, filing>>

\* One get_embeddings call, from its entry to its return or its exception.
NextEmbed ==
    \/ GetEmbeddings
    \/ \E outcome \in ProviderOutcomes : GetEmbeddingsBatch(outcome)

SpecEmbed == InitEmbed /\ [][NextEmbed]_vars

\* ------------------------------------------------------------------- HTTP
\* The /upload and /query handlers of main.py over the process-wide
\* retriever. Both are coroutines without an await: once the event loop has
\* started one it runs to its response before any other handler runs.
MaxRequests == 2

FileNames == {"a.txt", "b.txt"}
MetadataOf(filename) == {<<"filename", filename>>}

\* ingest_document on the uploaded file: it raises, or returns the chunks of
\* the text (none for a text that cleans to nothing).
IngestOutcomes ==
    {[kind |-> "ImportError", chunks |-> <<>>], [kind |-> "ValueError", chunks |-> <<>>]}
        \cup {[kind |-> "chunks", chunks |-> SubSeq(TextList, 1, n)] : n \in 0..MaxArg}

AgentOutcomes == {"ok", "error"}

\* get_embeddings from its call to its return or exception, the provider
\* answering every request of the call with outcome.
RECURSIVE RunBatches(_, _)
RunBatches(e, outcome) ==
    IF e.pc = "batches" THEN RunBatches(get_embeddings_batch(e, outcome), outcome)
    ELSE e

RunEmbeddings(api_key, texts, outcome) ==
    RunBatches(get_embeddings(EmbeddingCall(api_key, texts)), outcome)

\* An exception on its way out of a handler.
HTTPException(status) == [kind |-> "HTTPException", status |-> status]
Exception(kind) == [kind |-> kind, status |-> 0]

\* The except clauses around get_embeddings in upload_file: the status of the
\* HTTPException raised for the error err of get_embeddings.
upload_embedding_except(err) ==
    IF err.kind = "ValueError" THEN HTTPException(400)
    ELSE IF err.cause = "quota" THEN HTTPException(429)
    ELSE HTTPException(500)

\* The except clauses around get_embeddings in query_documents.
query_embedding_except(err) ==
    IF err.kind = "ValueError" THEN HTTPException(400) ELSE HTTPException(500)

\* The outer except clauses of upload_file: the status sent to the client for
\* an exception raised in the body.
upload_except(exc) == IF exc.kind = "HTTPException" THEN exc.status ELSE 500

\* The outer except clauses of query_documents.
query_except(exc) == IF exc.kind = "ValueError" THEN 400 ELSE 500

\* r["metadata"].get("filename", "Unknown")
FilenameOf(meta) ==
    IF \E p \in meta : p[1] = "filename"
    THEN (CHOOSE p \in meta : p[1] = "filename")[2]
    ELSE "Unknown"

SourcesOf(hits) == [i \in 1..Len(hits) |-> FilenameOf(hits[i].metadata)]

Elements(seq) == {seq[i] : i \in 1..Len(seq)}

\* list(set(sources)): the distinct elements, in any order.
ListsOfSet(S) ==
    {l \in [1..Cardinality(S) -> S] : \A i, j \in 1..Cardinality(S) : l[i] = l[j] => i = j}

Request(kind, filename, question) ==
    [kind |-> kind, filename |-> filename, question |-> question,
     pc |-> "accepted", status |-> 0, raised |-> Exception("none"),
     err |-> NoError, chunks |-> <<>>, embeddings |-> <<>>, added |-> FALSE,
     hits |-> <<>>, sources |-> <<>>, observed |-> None]

\* The requests whose handler has started and has not responded.
Running == {r \in 1..Len(requests) : requests[r].pc \notin {"accepted", "done"}}

\* The event loop gives the next step to r: no other handler is under way.
Scheduled(r) == r \in 1..Len(requests) /\ Running \subseteq {r}

\* What a handler finds in the retriever when it first reads it.
Observation ==
    Some([vectors |-> NumVectors(index), documents |-> Len(documents),
          partial |-> \E u \in 1..Len(requests) :
                          /\ requests[u].pc = "done" /\ requests[u].added
                          /\ requests[u].status # 200])

Respond(r, exc) ==
    [r EXCEPT !.pc = "done", !.raised = exc,
              !.status = IF r.kind = "upload" THEN upload_except(exc)
                         ELSE query_except(exc)]

Arrive(kind, filename, question) ==
    /\ Len(requests) < MaxRequests
    /\ requests' = Append(requests, Request(kind, filename, question))
    /\ UNCHANGED <<Retriever, Text, embedding, filing>>

\* sources = [...]; list(set(sources)) in query_documents.
query_sources(hits) == ListsOfSet(Elements(SourcesOf(hits)))

SetRequest(r, req) == requests' = [requests EXCEPT ![r] = req]

\* upload_file up to the chunks: the filename check and ingest_document.
UploadIngest(r, outcome) ==
    /\ Scheduled(r) /\ requests[r].kind = "upload" /\ requests[r].pc = "accepted"
    /\ SetRequest(r,
          IF requests[r].filename = "" THEN Respond(requests[r], HTTPException(400))
          ELSE IF outcome.kind # "chunks" THEN Respond(requests[r], HTTPException(500))
          ELSE IF outcome.chunks = <<>> THEN Respond(requests[r], HTTPException(400))
          ELSE [requests[r] EXCEPT !.pc = "ingested", !.chunks = outcome.chunks])
    /\ UNCHANGED <<Retriever, Text, embedding, filing>>

\* upload_file: get_embeddings(chunks) and its except clauses.
UploadEmbed(r, api_key, outcome) ==
    /\ Scheduled(r) /\ requests[r].kind = "upload" /\ requests[r].pc = "ingested"
    /\ LET e == RunEmbeddings(api_key, requests[r].chunks, outcome)
       IN SetRequest(r,
             IF e.pc = "raised"
             THEN Respond([requests[r] EXCEPT !.err = e.err],
                          upload_embedding_except(e.err))
             ELSE [requests[r] EXCEPT !.pc = "embedded", !.embeddings = e.out.val])
    /\ UNCHANGED <<Retriever, Text, embedding, filing>>

\* upload_file: build_index on the first upload, add_documents afterwards.
UploadAdd(r) ==
    /\ Scheduled(r) /\ requests[r].kind = "upload" /\ requests[r].pc = "embedded"
    /\ LET req == [requests[r] EXCEPT !.observed = Observation]
           M == Some(Repeat(MetadataOf(req.filename), Len(req.chunks)))
           res == IF ~index.built
                  THEN build_index(Self, req.embeddings, req.chunks, M)
                  ELSE add_documents(Self, req.embeddings, req.chunks, M)
       IN /\ Becomes(res.self)
          /\ FitsDisk
          /\ SetRequest(r, IF res.ok THEN [req EXCEPT !.pc = "indexed", !.added = TRUE]
                           ELSE Respond(req, HTTPException(500)))
    /\ UNCHANGED <<faissFile, pklFile, call, rt, Text, embedding, filing>>

\* upload_file: retriever.save() and the response.
UploadSave(r, fault) ==
    /\ Scheduled(r) /\ requests[r].kind = "upload" /\ requests[r].pc = "indexed"
    /\ LET res == save(Self, Disk(faissFile, pklFile), fault)
       IN /\ faissFile' = res.disk.faiss
          /\ pklFile' = res.disk.pkl
          /\ SetRequest(r, IF res.ok THEN [requests[r] EXCEPT !.pc = "done", !.status = 200]
                           ELSE Respond(requests[r], HTTPException(500)))
    /\ UNCHANGED <<index, documents, metadata, dimension, call, rt, Text,
                   embedding, filing>>

\* query_documents up to the query vector: the test for an empty retriever,
\* get_embeddings([question]) and its except clauses.
QueryEmbed(r, api_key, outcome) ==
    /\ Scheduled(r) /\ requests[r].kind = "query" /\ requests[r].pc = "accepted"
    /\ LET req == [requests[r] EXCEPT !.observed = Observation]
           e == RunEmbeddings(api_key, <<req.question>>, outcome)
       IN SetRequest(r,
             IF ~index.built \/ Len(documents) = 0
             THEN Respond(req, HTTPException(400))
             ELSE IF e.pc = "raised"
             THEN Respond([req EXCEPT !.err = e.err], query_embedding_except(e.err))
             ELSE [req EXCEPT !.pc = "embedded", !.embeddings = e.out.val])
    /\ UNCHANGED <<Retriever, Text, embedding, filing>>

\* query_documents: retrieve, the agent's answer and the response.
QueryAnswer(r, agent) ==
    /\ Scheduled(r) /\ requests[r].kind = "query" /\ requests[r].pc = "embedded"
    /\ LET res == retrieve(Self, requests[r].embeddings[1], Some(TopKRetrieval))
       IN IF ~res.ok
          THEN SetRequest(r, Respond(requests[r], Exception("RuntimeError")))
          ELSE IF res.hits = <<>>
          THEN SetRequest(r, [requests[r] EXCEPT !.pc = "done", !.status = 200])
          ELSE IF agent # "ok"
          THEN SetRequest(r, Respond([requests[r] EXCEPT !.hits = res.hits],
                                     Exception("APIError")))
          ELSE \E sources \in query_sources(res.hits) :
                  SetRequest(r, [requests[r] EXCEPT !.pc = "done", !.status = 200,
                                                    !.hits = res.hits,
                                                    !.sources = sources])
    /\ UNCHANGED <<Retriever, Text, embedding, filing>>

HttpKeys == {<<>>, <<"s", "k">>}

NextHttp ==
    \/ \E f \in FileNames \cup {""} : Arrive("upload", f, "")
    \/ \E q \in {TextList[1], TextList[2]} : Arrive("query", "", q)
    \/ \E r \in 1..Len(requests), o \in IngestOutcomes : UploadIngest(r, o)
    \/ \E r \in 1..Len(requests), k \in HttpKeys, o \in ProviderOutcomes :
            UploadEmbed(r, k, o)
    \/ \E r \in 1..Len(requests) : UploadAdd(r)
    \/ \E r \in 1..Len(requests), fault \in SaveFaults : UploadSave(r, fault)
    \/ \E r \in 1..Len(requests), k \in HttpKeys, o \in ProviderOutcomes :
            QueryEmbed(r, k, o)
    \/ \E r \in 1..Len(requests), a \in AgentOutcomes : QueryAnswer(r, a)

SpecHttp == Init /\ [][NextHttp]_vars

\* ------------------------------------------------------------ rag_chain
\* The per-filing search of rag_chain.py. The index directory of the key
\* (ticker, filing_type, year) is absent, unreadable, or holds documents; a
\* document's metadata has a "source" path or none. The documents are listed
\* in the order the similarity search ranks them for the question.
SourcePaths == {<<"x", "a.txt">>, <<"y", "a.txt">>, <<"x", "b.txt">>}
FilingDocs == <<Some(<<"x", "a.txt">>), None, Some(<<"y", "a.txt">>),
                Some(<<"x", "b.txt">>)>>

FilingIndexes ==
    {[state |-> "absent", docs |-> <<>>], [state |-> "unreadable", docs |-> <<>>]}
        \cup {[state |-> "ok", docs |-> SubSeq(FilingDocs, i, j)] :
                  i \in 1..Len(FilingDocs), j \in 1..Len(FilingDocs)}

\* Path(source_path).name
PathName(path) == path[Len(path)]

\* load_faiss_index: None when the directory is absent or FAISS.load_local
\* raises, the vector store otherwise.
load_faiss_index(ix) == IF ix.state = "ok" THEN Some(ix.docs) ELSE None

\* vectorstore.similarity_search(..., k=top_k), and the retriever of the QA
\* chain with search_kwargs k.
SimilaritySearch(docs, top_k) == SubSeq(docs, 1, Min(top_k, Len(docs)))

\* retrieve_filing_section
retrieve_filing_section(f) ==
    LET vectorstore == load_faiss_index(f.index)
    IN IF ~vectorstore.some THEN [f EXCEPT !.pc = "returned"]
       ELSE [f EXCEPT !.pc = "returned",
                      !.hits = SimilaritySearch(vectorstore.val, f.top_k)]

\* The names answer_question_with_rag collects from the source documents.
SourceNames(hits) ==
    LET named == SelectSeq(hits, LAMBDA d : d.some)
    IN [i \in 1..Len(named) |-> PathName(named[i].val)]

\* The sources of a rag_chain answer that keep every document's name.
rag_sources_all(hits) == {SourceNames(hits)}

\* list(set(sources)) if sources else []
rag_sources(hits) == ListsOfSet(Elements(SourceNames(hits)))

\* answer_question_with_rag, with get_qa_chain, up to the source documents:
\* llm is the outcome of the chain's invoke.
answer_question_with_rag(f, llm) ==
    LET vectorstore == load_faiss_index(f.index)
    IN IF ApiKeyMissing(f.api_key)
       THEN [f EXCEPT !.pc = "raised", !.err = Error("ValueError", "api_key")]
       ELSE IF ~vectorstore.some
       THEN [f EXCEPT !.pc = "raised", !.err = Error("ValueError", "no_index")]
       ELSE IF llm # "ok"
       THEN [f EXCEPT !.pc = "raised", !.err = Error("APIError", "llm")]
       ELSE [f EXCEPT !.pc = "returned",
                      !.hits = SimilaritySearch(vectorstore.val, f.top_k)]

FilingCall(op, ix, api_key, top_k) ==
    [pc |-> "call", op |-> op, index |-> ix, api_key |-> api_key, top_k |-> top_k,
     hits |-> <<>>, sources |-> <<>>, err |-> NoError]

FilingCalls ==
    {FilingCall(op, ix, k, n) :
        op \in {"retrieve_filing_section", "answer_question_with_rag"},
        ix \in FilingIndexes, k \in HttpKeys, n \in 1..MaxK}

RetrieveFilingSection ==
    /\ filing.pc = "call" /\ filing.op = "retrieve_filing_section"
    /\ filing' = retrieve_filing_section(filing)
    /\ UNCHANGED <<Retriever, Text, embedding, requests>>

AnswerQuestionWithRag(llm) ==
    /\ filing.pc = "call" /\ filing.op = "answer_question_with_rag"
    /\ LET f == answer_question_with_rag(filing, llm)
       IN IF f.pc = "returned"
          THEN \E sources \in rag_sources(f.hits) :
                  filing' = [f EXCEPT !.sources = sources]
          ELSE filing' = f
    /\ UNCHANGED <<Retriever, Text, embedding, requests>>

\* Answers with their sources. The two search paths share no state, so a
\* run follows one of them: one call into rag_chain, or a retriever built
\* from documents with and without a filename and queried over /query.
InitAnswer ==
    /\ Fresh
    /\ chunking = NoChunking
    /\ cleaning = NoCleaning
    /\ embedding = NoEmbedding
    /\ requests = NoRequests
    /\ filing \in FilingCalls \cup {NoFiling}

NextAnswer ==
    \/ /\ \E E \in DiskEmbArgs, D \in DocArgs, M \in MetaArgs :
              BuildIndex(E, D, M) /\ FitsDisk
       /\ filing = NoFiling /\ requests = NoRequests
       /\ UNCHANGED <<Text, Calls>>
    \/ \E q \in {TextList[1], TextList[2]} :
            Arrive("query", "", q) /\ filing = NoFiling /\ requests = NoRequests
    \/ \E r \in 1..Len(requests), k \in HttpKeys, o \in ProviderOutcomes :
            QueryEmbed(r, k, o)
    \/ \E r \in 1..Len(requests), a \in AgentOutcomes : QueryAnswer(r, a)
    \/ RetrieveFilingSection
    \/ \E llm \in AgentOutcomes : AnswerQuestionWithRag(llm)

SpecAnswer == InitAnswer /\ [][NextAnswer]_vars

\* -------------------------------------------------------------- properties
Memory == <<index, documents, metadata, dimension>>
Files == <<faissFile, pklFile>>

IsSorted(hits) == \A m \in 1..(Len(hits) - 1) : hits[m].distance <= hits[m + 1].distance

Stored(q) == index.built /\ \E i \in 1..Len(index.xb) : index.xb[i] = q

\* C1: after any sequence of build_index and add_documents calls the number
\* of vectors in the index equals len(documents) and len(metadata).
C1_LengthsAgree ==
    /\ NumVectors(index) = Len(documents)
    /\ Len(documents) = Len(metadata)

\* C2: a save call that stops at any point leaves the two files either both
\* as they were or both as the completed call leaves them.
C2_SaveAllOrNothing ==
    [][call'.op = "save" =>
          \/ <<faissFile', pklFile'>> = <<faissFile, pklFile>>
          \/ Disk(faissFile', pklFile') =
                save(Self, Disk(faissFile, pklFile), "none").disk]_vars

\* C3: after build_index, save and load (on the same object or a new one),
\* retrieve returns for every query and every k the list it returned before
\* the save.
C3_RoundTrip ==
    rt.stage = "loaded" =>
        \A q \in Vecs, K \in KArgs : retrieve(Self, q, K) = retrieve(rt.self, q, K)

C3_Witness ==
    /\ rt.stage = "loaded"
    /\ call.op = "load"
    /\ Len(index.xb) = 2
    /\ index.xb[1] # index.xb[2]
    /\ Len(documents) = 2
    /\ metadata = <<FileMeta, FileMeta>>
    /\ Len(retrieve(Self, <<1>>, Some(2)).hits) = 2

\* The entry retrieve shows for the vector at position i (0-based).
EntryAt(s, i) ==
    [vector |-> s.index.xb[i + 1],
     text |-> s.documents[i + 1],
     metadata |-> IF i < Len(s.metadata) THEN s.metadata[i + 1] ELSE EmptyMeta]

\* C4: add_documents on a built index stores exactly the new vectors more,
\* and every entry that existed before (a vector with its text) is still at
\* its position with the same vector, text and metadata.
C4_AddAppendOnly ==
    [][call'.op = "add_documents" /\ call'.ok /\ call'.had =>
          /\ NumVectors(index') = NumVectors(index) + Len(call'.E)
          /\ \A i \in 0..(Min(NumVectors(index), Len(documents)) - 1) :
                EntryAt(Self', i) = EntryAt(Self, i)]_vars

\* C5: retrieve returns its hits in non-decreasing order of distance, and
\* when the query equals a stored vector the first hit has distance 0.
C5_RetrieveSorted ==
    \A q \in Vecs, K \in KArgs :
        LET r == retrieve(Self, q, K)
        IN r.ok => /\ IsSorted(r.hits)
                   /\ Stored(q) /\ r.hits # <<>> => r.hits[1].distance = 0

\* C6: with n stored entries retrieve(q, k) returns exactly min(k, n) hits,
\* every hit is for a position that holds a vector, and its text and metadata
\* are the ones stored at that position.
C6_RetrieveExact ==
    \A q \in Vecs, k \in 1..MaxK :
        LET r == retrieve(Self, q, Some(k))
            slots == Search(index, q, Min(k, Len(documents)))
        IN r.ok /\ index.built /\ Len(documents) > 0 =>
              /\ Len(r.hits) = Min(k, Len(documents))
              /\ \A m \in 1..Len(r.hits) :
                    /\ slots[m].label \in 0..(NumVectors(index) - 1)
                    /\ slots[m].label < Len(metadata)
                    /\ r.hits[m].text = documents[slots[m].label + 1]
                    /\ r.hits[m].metadata = metadata[slots[m].label + 1]

\* C7: retrieve on a retriever with no index or no documents returns the
\* empty list, raises nothing and changes nothing.
C7_RetrieveEmpty ==
    [][call'.op = "retrieve" /\ (~index.built \/ Len(documents) = 0) =>
          /\ call'.out = [ok |-> TRUE, hits |-> <<>>]
          /\ UNCHANGED <<Memory, Files>>]_vars

C7_Witness ==
    /\ call.op = "retrieve"
    /\ index.built
    /\ Len(documents) = 0
    /\ call.out.ok
    /\ call.out.hits = <<>>

\* C8: build_index with an empty embeddings collection raises and leaves
\* index, documents, metadata and dimension as they were.
C8_BuildEmptyFails ==
    [][call'.op = "build_index" /\ call'.E = <<>> =>
          ~call'.ok /\ UNCHANGED Memory]_vars

C8_Witness ==
    /\ call.op = "build_index"
    /\ call.E = <<>>
    /\ ~call.ok
    /\ index.built
    /\ Len(documents) > 0

\* C9: a successful build_index(V, T, M) leaves an index holding exactly V in
\* order, documents equal to T and dimension equal to the length of V's first
\* vector, whatever was there before.
C9_BuildReplaces ==
    [][call'.op = "build_index" /\ call'.ok =>
          /\ index'.built
          /\ index'.xb = call'.E
          /\ index'.d = Len(call'.E[1])
          /\ documents' = call'.D
          /\ dimension' = Len(call'.E[1])
          /\ get_stats(Self') = [num_documents |-> Len(call'.D),
                                 dimension |-> Len(call'.E[1]),
                                 index_exists |-> TRUE]]_vars

C9_Witness ==
    /\ call.op = "build_index"
    /\ call.ok
    /\ call.had
    /\ Len(call.E) = 1
    /\ Len(index.xb) = 1
    /\ dimension = 2

\* C10: add_documents with a metadata list shorter than the documents list
\* leaves len(metadata) equal to len(documents), the supplied entries at
\* their positions and empty mappings in the others.
C10_AddPadsMetadata ==
    [][/\ call'.op = "add_documents"
       /\ call'.ok
       /\ call'.M.some
       /\ Len(call'.M.val) < Len(call'.D)
       => /\ Len(metadata') = Len(documents')
          /\ \A j \in 1..Len(call'.D) :
                metadata'[Len(documents') - Len(call'.D) + j] =
                    IF j <= Len(call'.M.val) THEN call'.M.val[j] ELSE EmptyMeta]_vars

\* C11: load raises FileNotFoundError whenever the .faiss file or the .pkl
\* file is missing, and then leaves index, documents, metadata and dimension
\* as they were.
C11_LoadMissingFails ==
    [][call'.op = "load" /\ (faissFile.state = "absent" \/ pklFile.state = "absent")
       => /\ ~call'.ok
          /\ call'.err = "FileNotFoundError"
          /\ UNCHANGED Memory]_vars

\* A load that failed on a base path holding the side-table alone, in a
\* retriever with a built index.
C11_Witness ==
    /\ call.op = "load" /\ ~call.ok /\ call.err = "FileNotFoundError"
    /\ faissFile.state = "absent" /\ pklFile.state = "ok"
    /\ index.built /\ Len(documents) > 0

\* C12: a load that succeeds leaves as many metadata entries as documents,
\* whatever the lengths of the two lists in the side-table.
C12_LoadRepairsMetadata ==
    call.op = "load" /\ call.ok => Len(metadata) = Len(documents)

\* C13: after a save that completed, in any state of the retriever, a load
\* from the two files succeeds and gives the state that was saved.
C13_SavePairLoads ==
    call.op = "save" /\ call.ok
    => LET r == load(NewSelf, Disk(faissFile, pklFile))
       IN r.ok /\ r.self = Self

\* C14: add_documents with vectors of another length than the index's fails
\* and changes nothing, and in every state the dimension is the length of
\* every vector in the index.
C14_DimensionFixed ==
    [][/\ call'.op = "add_documents" /\ index.built
          /\ (\E i \in 1..Len(call'.E) : Len(call'.E[i]) # index.d)
          => ~call'.ok /\ UNCHANGED Memory
       /\ index'.built => \A i \in 1..Len(index'.xb) : Len(index'.xb[i]) = dimension'
      ]_vars

\* C15: in chunk_text_by_tokens, for every chunk_size >= 1 and overlap >= 0,
\* every pass of the loop that is followed by another one moves the window
\* start forward by at least one token, so the loop ends.
C15_TokensAdvance ==
    [][chunking.pc = "tokens" /\ chunking'.pc = "tokens"
       => chunking'.start_idx > chunking.start_idx]_vars

DropFirst(w, k) == SubSeq(w, k + 1, Len(w))

RECURSIVE Concat(_)
Concat(ws) == IF ws = <<>> THEN <<>> ELSE ws[1] \o Concat(Tail(ws))

\* The first window followed by every later window without its first k tokens.
Rejoin(ws, k) ==
    IF ws = <<>> THEN <<>>
    ELSE ws[1] \o Concat([i \in 1..(Len(ws) - 1) |-> DropFirst(ws[i + 1], k)])

TokenRun == chunking.pc = "done" /\ chunking.path = "tokens"
ValidOverlap == chunking.overlap < chunking.chunk_size

\* C16: with 0 <= overlap < chunk_size, the first chunk's tokens followed by
\* the tokens of every later chunk after its first overlap tokens are the
\* token sequence of the text.
C16_RejoinTokens ==
    TokenRun /\ ValidOverlap
    => Rejoin(chunking.windows, chunking.overlap) = chunking.tokens

\* A finished run of three or more windows with an overlap, over a text with
\* a token of two characters, whose last window is all overlap.
C16_Witness ==
    /\ TokenRun /\ ValidOverlap
    /\ chunking.overlap > 0
    /\ Len(chunking.windows) >= 3
    /\ Len(chunking.windows[Len(chunking.windows)]) <= chunking.overlap
    /\ \E i \in 1..Len(chunking.tokens) : Len(chunking.tokens[i]) = 2

\* The size chunk_text measures the text by: tokens, or characters when it
\* fell back.
Measured ==
    IF chunking.path = "tokens" THEN Len(chunking.tokens) ELSE Len(chunking.text)

\* C17: a non-empty text of fewer tokens than chunk_size, with
\* 0 <= overlap < chunk_size, gives exactly one chunk, the whole text.
C17_ShortTextOneChunk ==
    /\ chunking.pc = "done" /\ ValidOverlap
    /\ chunking.text # <<>>
    /\ Measured < chunking.chunk_size
    => chunking.chunks = <<chunking.text>>

\* C18: the empty text gives no chunks, on the token path and on the
\* character path.
C18_EmptyTextNoChunks ==
    chunking.pc = "done" /\ chunking.text = <<>> => chunking.chunks = <<>>

\* C19: with 0 <= overlap < chunk_size and n tokens, chunk i (from 0) is the
\* decoded window [i*(chunk_size-overlap), min(i*(chunk_size-overlap)+chunk_size, n)),
\* there is one chunk for each i whose window start is below n and no other,
\* no window has more than chunk_size tokens, and two consecutive full
\* windows share overlap tokens.
C19_TokenWindows ==
    TokenRun /\ ValidOverlap
    => LET n == Len(chunking.tokens)
           size == chunking.chunk_size
           stride == chunking.chunk_size - chunking.overlap
           starts == {i \in 0..n : i * stride < n}
           w == chunking.windows
       IN /\ Len(w) = Cardinality(starts)
          /\ Len(chunking.chunks) = Len(w)
          /\ \A i \in starts :
                /\ w[i + 1] = SubSeq(chunking.tokens, i * stride + 1,
                                     Min(i * stride + size, n))
                /\ chunking.chunks[i + 1] = Decode(w[i + 1])
                /\ Len(w[i + 1]) <= size
          /\ \A i \in starts :
                i + 1 \in starts /\ Len(w[i + 1]) = size /\ Len(w[i + 2]) = size
                => SubSeq(w[i + 1], stride + 1, size)
                       = SubSeq(w[i + 2], 1, chunking.overlap)

\* A finished run with an overlap, two full windows and a shorter last one.
C19_Witness ==
    /\ TokenRun /\ ValidOverlap
    /\ chunking.overlap > 0
    /\ Len(chunking.windows) >= 3
    /\ Len(chunking.windows[1]) = chunking.chunk_size
    /\ Len(chunking.windows[2]) = chunking.chunk_size
    /\ Len(chunking.windows[Len(chunking.windows)]) < chunking.chunk_size

\* C20: the text clean_text returns has no NUL, no two whitespace characters
\* in a row, no whitespace at either end, and cleaning it again returns it.
C20_CleanTextNormal ==
    cleaning.pc = "done"
    => LET out == cleaning.out
       IN /\ \A i \in 1..Len(out) : out[i] # Nul
          /\ \A i \in 1..(Len(out) - 1) :
                ~(out[i] \in Whitespace /\ out[i + 1] \in Whitespace)
          /\ out # <<>> => out[1] \notin Whitespace /\ out[Len(out)] \notin Whitespace
          /\ clean_text(out) = out

\* C27: a load that fails, at the existence check or at any later step,
\* leaves index, documents, metadata and dimension as they were.
C27_LoadAtomic ==
    [][call'.op = "load" /\ ~call'.ok => UNCHANGED Memory]_vars

\* C28: in _chunk_text_characters, with 0 <= overlap < chunk_size, every pass
\* of the loop moves the window start forward, the passes that cut the chunk
\* at a sentence ending included, so the loop ends.
C28_CharactersAdvance ==
    [][chunking.pc = "characters" /\ chunking'.pc = "characters" /\ ValidOverlap
       => chunking'.start_idx > chunking.start_idx]_vars

\* The batches of at most BatchSize consecutive texts, in order.
RECURSIVE Batches(_)
Batches(texts) ==
    IF texts = <<>> THEN <<>>
    ELSE <<SubSeq(texts, 1, Min(BatchSize, Len(texts)))>>
             \o Batches(SubSeq(texts, BatchSize + 1, Len(texts)))

\* C21: get_embeddings returns one vector per text in the order of the texts,
\* having sent the texts in consecutive batches of at most 100, in order; at
\* every moment the requests sent are the first batches; a call that raised
\* returns nothing.
C21_EmbeddingsInOrder ==
    /\ embedding.pc # "none"
       => /\ Len(embedding.sent) <= Len(Batches(embedding.texts))
          /\ embedding.sent = SubSeq(Batches(embedding.texts), 1, Len(embedding.sent))
    /\ embedding.pc = "returned"
       => /\ embedding.out.some
          /\ Len(embedding.out.val) = Len(embedding.texts)
          /\ \A k \in 1..Len(embedding.texts) :
                embedding.out.val[k] = Embed(embedding.texts[k])
          /\ embedding.sent = Batches(embedding.texts)
    /\ embedding.pc = "raised" => ~embedding.out.some

\* A call over three batches that returned.
C21_Witness ==
    /\ embedding.pc = "returned"
    /\ Len(embedding.texts) > 2 * BatchSize
    /\ Len(embedding.sent) = 3

\* C22: with an API key that is empty or blank, get_embeddings raises the
\* configuration error and no request is ever sent to the provider.
C22_NoKeyNoRequest ==
    embedding.pc # "none" /\ ApiKeyMissing(embedding.api_key)
    => /\ embedding.sent = <<>>
       /\ embedding.pc \in {"call", "raised"}
       /\ embedding.pc = "raised" => embedding.err = Error("ValueError", "api_key")

\* A call with a blank key and texts to embed that raised.
C22_Witness ==
    /\ embedding.pc = "raised"
    /\ embedding.api_key = <<" ", "\t">>
    /\ Len(embedding.texts) > 0
    /\ embedding.sent = <<>>

Done(kind) ==
    {r \in 1..Len(requests) : requests[r].kind = kind /\ requests[r].pc = "done"}

\* C23: get_embeddings raises another kind of error for a quota failure than
\* for a missing key, and /upload answers 429 to the first and 400 to the
\* second.
C23_QuotaDistinct ==
    \A r \in Done("upload") :
        /\ requests[r].err.cause = "quota"
           => requests[r].err.kind # "ValueError" /\ requests[r].status = 429
        /\ requests[r].err.cause = "api_key"
           => requests[r].err.kind = "ValueError" /\ requests[r].status = 400

\* The retriever a process has after its start: a new RAGRetriever, loaded
\* from the files when both are there.
Snapshot ==
    LET r == load(NewSelf, Disk(faissFile, pklFile))
    IN IF r.ok \/ r.err # "FileNotFoundError" THEN r ELSE Return(NewSelf)

\* C26: whenever no /upload is under way the vectors, documents and metadata
\* in memory are those of the snapshot on disk, whether the uploads so far
\* succeeded or failed.
C26_UploadKeepsSnapshot ==
    Running = {}
    => /\ Snapshot.ok
       /\ Snapshot.self.index = index
       /\ Snapshot.self.documents = documents
       /\ Snapshot.self.metadata = metadata

\* C29: at most one handler is under way at any time, and what a handler
\* finds in the retriever has as many vectors as documents and holds no
\* upload that was applied in part.
C29_RequestsIsolated ==
    /\ Cardinality(Running) <= 1
    /\ \A r \in 1..Len(requests) :
          requests[r].observed.some
          => /\ requests[r].observed.val.vectors = requests[r].observed.val.documents
             /\ ~requests[r].observed.val.partial

\* C30: a /query failure that the handler raises with status 400 reaches the
\* client with status 400, and status 500 reaches the client only for the
\* other failures.
C30_QueryKeepsStatus ==
    \A r \in Done("query") :
        /\ requests[r].raised = HTTPException(400) => requests[r].status = 400
        /\ requests[r].status = 500 => requests[r].raised # HTTPException(400)

\* C24: a search for a key that has no index returns an empty result and
\* raises nothing, in retrieve_filing_section and in answer_question_with_rag.
C24_NoIndexEmptyResult ==
    filing.pc \in {"returned", "raised"} /\ filing.index.state = "absent"
    => filing.pc = "returned" /\ filing.hits = <<>> /\ filing.sources = <<>>

NoRepeats(l) == \A i, j \in 1..Len(l) : l[i] = l[j] => i = j

\* The sources of the /query answers: each filename of a hit once, "Unknown"
\* for the hits without one, and nothing else.
QuerySourcesOnce ==
    \A r \in Done("query") :
        requests[r].status = 200
        => /\ NoRepeats(requests[r].sources)
           /\ Elements(requests[r].sources)
                  = {FilenameOf(requests[r].hits[i].metadata) :
                        i \in 1..Len(requests[r].hits)}

\* The name a rag_chain document is cited by, "Unknown" when it has no source.
NameOrUnknown(d) == IF d.some THEN PathName(d.val) ELSE "Unknown"

\* C25: the sources of an answer hold the filename of every retrieved hit
\* once, the placeholder "Unknown" for the hits without a filename, and
\* nothing else, in /query and in answer_question_with_rag.
C25_SourcesOnce ==
    /\ QuerySourcesOnce
    /\ filing.pc = "returned" /\ filing.op = "answer_question_with_rag"
       => /\ NoRepeats(filing.sources)
          /\ Elements(filing.sources)
                 = {NameOrUnknown(filing.hits[i]) : i \in 1..Len(filing.hits)}

\* C25 as amended: as C25, except that in answer_question_with_rag a hit
\* without a source contributes nothing.
C25_SourcesOnceAmended ==
    /\ QuerySourcesOnce
    /\ filing.pc = "returned" /\ filing.op = "answer_question_with_rag"
       => /\ NoRepeats(filing.sources)
          /\ Elements(filing.sources)
                 = {PathName(filing.hits[i].val) :
                       i \in {j \in 1..Len(filing.hits) : filing.hits[j].some}}

\* A rag_chain answer over two documents of one name and one without a
\* source.
C25_Witness ==
    /\ filing.pc = "returned" /\ filing.op = "answer_question_with_rag"
    /\ Len(filing.hits) = 3
    /\ filing.sources = <<"a.txt">>

====
